---- MODULE Spec2Model ----
(***************************************************************************)
(* Model of filesystem_mcp (server.py): a tool server whose operations are *)
(* confined to the directory it was launched from.                         *)
(*                                                                         *)
(* A string is a sequence of one-character strings, a path is a sequence   *)
(* of names (its parts after the root "/"), and the filesystem is the set  *)
(* of directories plus a function from the existing plain files to their   *)
(* text.  The filesystem holds no symbolic links.                          *)
(***************************************************************************)
EXTENDS Integers, Sequences, FiniteSets, TLC

VARIABLES
    dirs,      \* the directories that exist, as canonical paths
    files,     \* the plain files that exist: canonical path -> text
    last,      \* the last tool invocation: request and response
    nops,      \* number of tool invocations so far
    pending,   \* concurrent server: invocations received, not yet started
    running,   \* concurrent server: the coroutine the event loop is running
    suspended, \* concurrent server: coroutines parked at a suspension point
    finished   \* concurrent server: responses, in completion order

vars == <<dirs, files, last, nops, pending, running, suspended, finished>>

-----------------------------------------------------------------------------
(* Bounds *)

MaxOps == 2          \* tool invocations per behaviour
MaxResultsBound == 2 \* max_results ranges over 1..MaxResultsBound
MaxLinesBound == 2   \* max_lines ranges over None and 1..MaxLinesBound

-----------------------------------------------------------------------------
(* Strings *)

Front(s) == SubSeq(s, 1, Len(s) - 1)

startswith(s, prefix) ==
    /\ Len(prefix) <= Len(s)
    /\ SubSeq(s, 1, Len(prefix)) = prefix

IsSpace(c) == c \in {" ", "\n", "\r", "\t", "\f"}

RECURSIVE lstrip(_)
lstrip(s) == IF s # <<>> /\ IsSpace(Head(s)) THEN lstrip(Tail(s)) ELSE s

RECURSIVE rstrip(_)
rstrip(s) == IF s # <<>> /\ IsSpace(s[Len(s)]) THEN rstrip(Front(s)) ELSE s

\* ConfigDict(str_strip_whitespace=True): every str field of a request is
\* stripped of leading and trailing whitespace before the tool body runs.
str_strip_whitespace(s) == rstrip(lstrip(s))

\* str.lower() on the letters the model uses.
LowerChar(c) ==
    CASE c = "A" -> "a"
      [] c = "B" -> "b"
      [] c = "T" -> "t"
      [] OTHER -> c

lower(s) == [i \in 1..Len(s) |-> LowerChar(s[i])]

\* needle in haystack
Contains(haystack, needle) ==
    \E i \in 1..(Len(haystack) - Len(needle) + 1) :
        SubSeq(haystack, i, i + Len(needle) - 1) = needle

\* Code point of a character.
Ord(c) ==
    CASE c = "\t" -> 9
      [] c = "\n" -> 10
      [] c = "\f" -> 12
      [] c = "\r" -> 13
      [] c = " " -> 32
      [] c = "*" -> 42
      [] c = "." -> 46
      [] c = "/" -> 47
      [] c = "2" -> 50
      [] c = "?" -> 63
      [] c = "A" -> 65
      [] c = "B" -> 66
      [] c = "T" -> 84
      [] c = "a" -> 97
      [] c = "b" -> 98
      [] c = "c" -> 99
      [] c = "h" -> 104
      [] c = "k" -> 107
      [] c = "n" -> 110
      [] c = "o" -> 111
      [] c = "s" -> 115
      [] c = "t" -> 116
      [] c = "w" -> 119
      [] c = "x" -> 120

\* str < str: lexicographic by code point.
RECURSIVE StrLess(_, _)
StrLess(a, b) ==
    IF b = <<>> THEN FALSE
    ELSE IF a = <<>> THEN TRUE
    ELSE IF Head(a) = Head(b) THEN StrLess(Tail(a), Tail(b))
    ELSE Ord(Head(a)) < Ord(Head(b))

\* str.splitlines(): the line breaks are "\n", "\r", "\r\n" and "\f"; a trailing
\* line break opens no further line.
RECURSIVE splitlines_from(_, _)
splitlines_from(s, cur) ==
    IF s = <<>> THEN (IF cur = <<>> THEN <<>> ELSE <<cur>>)
    ELSE IF Head(s) = "\r" /\ Len(s) >= 2 /\ s[2] = "\n"
         THEN <<cur>> \o splitlines_from(Tail(Tail(s)), <<>>)
    ELSE IF Head(s) \in {"\n", "\r", "\f"}
         THEN <<cur>> \o splitlines_from(Tail(s), <<>>)
    ELSE splitlines_from(Tail(s), Append(cur, Head(s)))

splitlines(s) == splitlines_from(s, <<>>)

\* "\n".join(lines)
RECURSIVE join_lines(_)
join_lines(lines) ==
    IF lines = <<>> THEN <<>>
    ELSE IF Len(lines) = 1 THEN lines[1]
    ELSE lines[1] \o <<"\n">> \o join_lines(Tail(lines))

\* Text-mode reading (newline=None): "\r\n" and "\r" arrive as "\n".
RECURSIVE universal_newlines(_)
universal_newlines(s) ==
    IF s = <<>> THEN <<>>
    ELSE IF Head(s) = "\r" /\ Len(s) >= 2 /\ s[2] = "\n"
         THEN <<"\n">> \o universal_newlines(Tail(Tail(s)))
    ELSE IF Head(s) = "\r" THEN <<"\n">> \o universal_newlines(Tail(s))
    ELSE <<Head(s)>> \o universal_newlines(Tail(s))

-----------------------------------------------------------------------------
(* Paths *)

DotDot == <<".", ".">>

\* The directory the server was launched from: /w
WORK_DIR == << <<"w">> >>

RECURSIVE SplitOn(_, _, _)
SplitOn(s, sep, cur) ==
    IF s = <<>> THEN <<cur>>
    ELSE IF Head(s) = sep THEN <<cur>> \o SplitOn(Tail(s), sep, <<>>)
    ELSE SplitOn(Tail(s), sep, Append(cur, Head(s)))

\* pathlib's parsing of a string: split on "/", empty and "." parts dropped.
parse_parts(raw) ==
    SelectSeq(SplitOn(raw, "/", <<>>), LAMBDA n : n # <<>> /\ n # <<".">>)

IsAbsolute(raw) == raw # <<>> /\ Head(raw) = "/"

\* WORK_DIR / raw: an absolute raw path replaces WORK_DIR.
JoinWorkDir(raw) ==
    IF IsAbsolute(raw) THEN parse_parts(raw) ELSE WORK_DIR \o parse_parts(raw)

\* Path.resolve(): ".." parts are folded away; ".." at "/" stays at "/".
RECURSIVE resolve_from(_, _)
resolve_from(done, rest) ==
    IF rest = <<>> THEN done
    ELSE IF Head(rest) = DotDot
         THEN resolve_from(IF done = <<>> THEN <<>> ELSE Front(done), Tail(rest))
    ELSE resolve_from(Append(done, Head(rest)), Tail(rest))

resolve(parts) == resolve_from(<<>>, parts)

\* str(path)
RECURSIVE str_parts(_)
str_parts(parts) ==
    IF parts = <<>> THEN <<>> ELSE <<"/">> \o Head(parts) \o str_parts(Tail(parts))

str(path) == IF path = <<>> THEN <<"/">> ELSE str_parts(path)

\* Segment-wise nesting: path is root or lies below it.
IsUnder(path, root) ==
    /\ Len(path) >= Len(root)
    /\ SubSeq(path, 1, Len(root)) = root

\* The containment test of _safe_path.
InsideWorkDir(resolved) == startswith(str(resolved), str(WORK_DIR))

\* _safe_path: the resolved path, and whether it was accepted.
_safe_path(raw) ==
    LET resolved == resolve(JoinWorkDir(raw))
    IN  [ok |-> InsideWorkDir(resolved), path |-> resolved]

-----------------------------------------------------------------------------
(* Filesystem queries *)

\* The operating system's lookup of a path that may hold ".." parts: every
\* part that is passed through must be a directory.
RECURSIVE walk(_, _)
walk(cur, rest) ==
    IF rest = <<>> THEN [found |-> cur \in dirs \/ cur \in DOMAIN files, node |-> cur]
    ELSE IF cur \notin dirs THEN [found |-> FALSE, node |-> cur]
    ELSE IF Head(rest) = DotDot
         THEN walk(IF cur = <<>> THEN <<>> ELSE Front(cur), Tail(rest))
    ELSE walk(Append(cur, Head(rest)), Tail(rest))

lookup(path) == walk(<<>>, path)

exists(path) == lookup(path).found
is_dir(path) == lookup(path).found /\ lookup(path).node \in dirs
is_file(path) == lookup(path).found /\ lookup(path).node \in DOMAIN files

\* The file or directory a path denotes.
realnode(path) == lookup(path).node

\* The entries of a directory, by name.
children(d) ==
    {p[Len(p)] : p \in {q \in dirs \cup DOMAIN files : Len(q) = Len(d) + 1 /\ IsUnder(q, d)}}

\* read_text(encoding="utf-8", errors="replace")
read_text(path) == universal_newlines(files[realnode(path)])

Prefixes(path) == {SubSeq(path, 1, n) : n \in 0..Len(path)}

NoPath == <<>>
NoOut == [kind |-> "none"]

Response(op, req, target, err, out) ==
    [op |-> op, req |-> req, target |-> target, err |-> err, out |-> out]

-----------------------------------------------------------------------------
(* fs_read_file *)

ReadTruncatesOffByOne(max_lines, total_lines) ==
    max_lines # <<>> /\ total_lines >= max_lines[1]

\* The read request is cut short: max_lines is set and the file has more lines.
ReadTruncates(max_lines, total_lines) ==
    max_lines # <<>> /\ total_lines > max_lines[1]

\* Why opening a path that does not exist fails: a plain file on the way
\* makes it ENOTDIR, which _handle_error does not classify.
OpenError(target) ==
    IF \E q \in Prefixes(target) : q # target /\ q \in DOMAIN files
    THEN "UnclassifiedError" ELSE "NotFoundError"

\* max_lines: <<>> for None, <<n>> for n.
fs_read_file(raw_path, max_lines) ==
    LET path == str_strip_whitespace(raw_path)
        req == [path |-> raw_path, max_lines |-> max_lines]
        safe == _safe_path(path)
        target == safe.path
        text == read_text(target)
        lines == splitlines(text)
        total_lines == Len(lines)
    IN  IF Len(path) < 1 \/ (max_lines # <<>> /\ max_lines[1] < 1)
        THEN Response("read", req, NoPath, "ValidationError", NoOut)
        ELSE IF ~safe.ok
        THEN Response("read", req, target, "ConfinementError", NoOut)
        ELSE IF is_dir(target)
        THEN Response("read", req, target, "IsDirectoryError", NoOut)
        ELSE IF ~is_file(target)
        THEN Response("read", req, target, OpenError(target), NoOut)
        ELSE IF ReadTruncates(max_lines, total_lines)
        THEN Response("read", req, target, "None",
                 [kind |-> "read",
                  content |-> join_lines(SubSeq(lines, 1, max_lines[1])),
                  truncated |-> TRUE,
                  shown |-> max_lines[1],
                  total |-> total_lines,
                  size |-> Len(files[target])])
        ELSE Response("read", req, target, "None",
                 [kind |-> "read",
                  content |-> text,
                  truncated |-> FALSE,
                  shown |-> total_lines,
                  total |-> total_lines,
                  size |-> Len(files[target])])

-----------------------------------------------------------------------------
(* fs_write_file *)

AlreadyExistsInverted(target, overwrite) == exists(target) /\ overwrite

\* The non-destructive default: an existing target is not replaced.
AlreadyExists(target, overwrite) == exists(target) /\ ~overwrite

\* parent.mkdir(parents=True, exist_ok=True) fails when a plain file is on
\* the way; it fails before it creates anything.
MkdirFails(parent) == \E q \in Prefixes(parent) : q \in DOMAIN files

\* str.count(chr(10))
CountNewlines(s) == Cardinality({i \in 1..Len(s) : s[i] = "\n"})

\* The text that validation hands to the tool body.
ValidatedContent(raw_content) == str_strip_whitespace(raw_content)

\* Lines 202-208: resolve the target and refuse to replace it.  The error
\* the body returns here, "None" when it goes on to write.
write_check(raw_path, overwrite) ==
    LET path == str_strip_whitespace(raw_path)
        safe == _safe_path(path)
    IN  IF Len(path) < 1
        THEN [err |-> "ValidationError", target |-> NoPath]
        ELSE IF ~safe.ok
        THEN [err |-> "ConfinementError", target |-> safe.path]
        ELSE IF AlreadyExists(safe.path, overwrite)
        THEN [err |-> "AlreadyExistsError", target |-> safe.path]
        ELSE [err |-> "None", target |-> safe.path]

\* Lines 210-211: create the missing parents and write the whole text.
write_commit(target, content) ==
    LET parent == IF target = <<>> THEN <<>> ELSE Front(target)
    IN  IF MkdirFails(parent) \/ target \in dirs
        THEN [err |-> "UnclassifiedError", dirs |-> dirs, files |-> files]
        ELSE [err |-> "None",
              dirs |-> dirs \cup Prefixes(parent),
              files |-> [p \in DOMAIN files \cup {target} |->
                            IF p = target THEN content ELSE files[p]]]

\* The result is the new filesystem and the response.
fs_write_file(raw_path, raw_content, overwrite) ==
    LET content == ValidatedContent(raw_content)
        req == [path |-> raw_path, content |-> raw_content, overwrite |-> overwrite]
        check == write_check(raw_path, overwrite)
        commit == write_commit(check.target, content)
    IN  IF check.err # "None"
        THEN [dirs |-> dirs, files |-> files,
              resp |-> Response("write", req, check.target, check.err, NoOut)]
        ELSE IF commit.err # "None"
        THEN [dirs |-> dirs, files |-> files,
              resp |-> Response("write", req, check.target, commit.err, NoOut)]
        ELSE [dirs |-> commit.dirs,
              files |-> commit.files,
              resp |-> Response("write", req, check.target, "None",
                          [kind |-> "written",
                           bytes |-> Len(content),
                           lines |-> CountNewlines(content) + 1])]

-----------------------------------------------------------------------------
(* fs_delete_file *)

DeleteMissing(target) == ~exists(target)

DeleteRefusesDirectoryMissing(target) == FALSE

DeleteRefusesDirectory(target) == is_dir(target)

\* Path.unlink(): removes a plain file; fails on a directory.
unlink(target) ==
    IF target \in DOMAIN files
    THEN [ok |-> TRUE, files |-> [p \in DOMAIN files \ {target} |-> files[p]]]
    ELSE [ok |-> FALSE, files |-> files]

fs_delete_file(raw_path) ==
    LET path == str_strip_whitespace(raw_path)
        req == [path |-> raw_path]
        safe == _safe_path(path)
        target == safe.path
        same(resp) == [dirs |-> dirs, files |-> files, resp |-> resp]
    IN  IF Len(path) < 1
        THEN same(Response("delete", req, NoPath, "ValidationError", NoOut))
        ELSE IF ~safe.ok
        THEN same(Response("delete", req, target, "ConfinementError", NoOut))
        ELSE IF DeleteMissing(target)
        THEN same(Response("delete", req, target, "NotFoundError", NoOut))
        ELSE IF DeleteRefusesDirectory(target)
        THEN same(Response("delete", req, target, "IsDirectoryError", NoOut))
        ELSE IF ~unlink(target).ok
        THEN same(Response("delete", req, target, "UnclassifiedError", NoOut))
        ELSE [dirs |-> dirs,
              files |-> unlink(target).files,
              resp |-> Response("delete", req, target, "None", [kind |-> "deleted"])]

-----------------------------------------------------------------------------
(* Path.glob and Path.rglob *)

\* fnmatch on one name: "*" is any run of characters, "?" any one character.
RECURSIVE fnmatch(_, _)
fnmatch(name, pat) ==
    IF pat = <<>> THEN name = <<>>
    ELSE IF Head(pat) = "*"
         THEN fnmatch(name, Tail(pat)) \/ (name # <<>> /\ fnmatch(Tail(name), pat))
    ELSE IF name = <<>> THEN FALSE
    ELSE IF Head(pat) = "?" THEN fnmatch(Tail(name), Tail(pat))
    ELSE Head(pat) = Head(name) /\ fnmatch(Tail(name), Tail(pat))

_is_wildcard_pattern(pat) == \E i \in 1..Len(pat) : pat[i] \in {"*", "?"}

StarStar == <<"*", "*">>

\* _RecursiveWildcardSelector._iterate_directories: the directory itself
\* and every directory below it.
iterate_directories(parent_path) ==
    LET top == realnode(parent_path)
    IN  {parent_path \o SubSeq(d, Len(top) + 1, Len(d)) : d \in {q \in dirs : IsUnder(q, top)}}

\* The selector chain built by _make_selector, applied to parent_path: the
\* paths it yields, made of parent_path and the parts that matched (a ".."
\* part of the pattern stays in the path as it is).
RECURSIVE select_from(_, _)
select_from(parent_path, pattern_parts) ==
    IF pattern_parts = <<>> THEN {parent_path}
    ELSE
        LET pat == Head(pattern_parts)
            child_parts == Tail(pattern_parts)
            dironly == child_parts # <<>>
        IN  IF pat = StarStar
            THEN UNION {select_from(start, child_parts) :
                            start \in iterate_directories(parent_path)}
            ELSE IF _is_wildcard_pattern(pat)
            THEN UNION {select_from(Append(parent_path, name), child_parts) :
                            name \in {n \in children(realnode(parent_path)) :
                                        /\ dironly => is_dir(Append(parent_path, n))
                                        /\ fnmatch(n, pat)}}
            ELSE IF (IF dironly THEN is_dir(Append(parent_path, pat))
                                ELSE exists(Append(parent_path, pat)))
                 THEN select_from(Append(parent_path, pat), child_parts)
                 ELSE {}

\* "**" inside a longer pattern part is rejected with ValueError.
InvalidPattern(pattern_parts) ==
    \E i \in 1..Len(pattern_parts) :
        /\ pattern_parts[i] # StarStar
        /\ Contains(pattern_parts[i], StarStar)

\* Path.glob(pattern)
glob(root, pattern) ==
    IF is_dir(root) THEN select_from(root, parse_parts(pattern)) ELSE {}

\* Path.rglob(pattern): the pattern is searched for below "**".
rglob(root, pattern) ==
    IF is_dir(root) THEN select_from(root, <<StarStar>> \o parse_parts(pattern)) ELSE {}

\* Which of the two a name search uses.
glob_fn(root, pattern, recursive) ==
    IF recursive THEN rglob(root, pattern) ELSE glob(root, pattern)

\* Why glob or rglob raises, "None" when it does not.
GlobError(pattern) ==
    IF pattern = <<>> THEN "ValueError"
    ELSE IF IsAbsolute(pattern) THEN "UnclassifiedError"
    ELSE IF InvalidPattern(parse_parts(pattern)) THEN "ValueError"
    ELSE "None"

\* Path < Path: part by part.
RECURSIVE PathLess(_, _)
PathLess(p, q) ==
    IF q = <<>> THEN FALSE
    ELSE IF p = <<>> THEN TRUE
    ELSE IF Head(p) = Head(q) THEN PathLess(Tail(p), Tail(q))
    ELSE StrLess(Head(p), Head(q))

\* sorted(paths)
RECURSIVE sorted_paths(_)
sorted_paths(S) ==
    IF S = {} THEN <<>>
    ELSE LET least == CHOOSE p \in S : \A q \in S \ {p} : PathLess(p, q)
         IN  <<least>> \o sorted_paths(S \ {least})

-----------------------------------------------------------------------------
(* _file_info *)

\* path.relative_to(WORK_DIR) raises ValueError unless the parts of path
\* begin with the parts of WORK_DIR.
RelativeToFails(path) == ~IsUnder(path, WORK_DIR)

\* str(path.relative_to(WORK_DIR))
RECURSIVE join_parts(_)
join_parts(parts) ==
    IF parts = <<>> THEN <<>>
    ELSE IF Len(parts) = 1 THEN parts[1]
    ELSE parts[1] \o <<"/">> \o join_parts(Tail(parts))

relative_to_work_dir(path) ==
    LET rel == SubSeq(path, Len(WORK_DIR) + 1, Len(path))
    IN  IF rel = <<>> THEN <<".">> ELSE join_parts(rel)

_file_info(path) ==
    [name |-> IF path = <<>> THEN <<>> ELSE path[Len(path)],
     path |-> relative_to_work_dir(path),
     size_bytes |-> IF is_file(path) THEN Len(files[realnode(path)]) ELSE 0,
     is_dir |-> is_dir(path)]

-----------------------------------------------------------------------------
(* fs_list_directory *)

HiddenSkippedInverted(show_hidden, name) == show_hidden /\ startswith(name, <<".">>)

\* Entries the listing leaves out.
HiddenSkipped(show_hidden, name) == ~show_hidden /\ startswith(name, <<".">>)

\* The sort key (p.is_file(), p.name.lower()); False sorts before True.
EntryKeyLess(d, a, b) ==
    LET fa == is_file(Append(d, a))
        fb == is_file(Append(d, b))
    IN  IF fa # fb THEN fb ELSE StrLess(lower(a), lower(b))

\* sorted(target.iterdir(), key=...)
RECURSIVE sorted_entries(_, _)
sorted_entries(d, names) ==
    IF names = {} THEN <<>>
    ELSE LET least == CHOOSE a \in names : \A b \in names \ {a} : ~EntryKeyLess(d, b, a)
         IN  <<least>> \o sorted_entries(d, names \ {least})

fs_list_directory(raw_path, show_hidden) ==
    LET path == str_strip_whitespace(raw_path)
        req == [path |-> raw_path, show_hidden |-> show_hidden]
        safe == _safe_path(path)
        target == safe.path
        items == sorted_entries(target, children(target))
        shown == SelectSeq(items, LAMBDA n : ~HiddenSkipped(show_hidden, n))
    IN  IF ~safe.ok
        THEN Response("list", req, target, "ConfinementError", NoOut)
        ELSE IF ~is_dir(target)
        THEN Response("list", req, target, "NotADirectoryError", NoOut)
        ELSE IF \E i \in 1..Len(shown) : RelativeToFails(Append(target, shown[i]))
        THEN Response("list", req, target, "ValueError", NoOut)
        ELSE Response("list", req, target, "None",
                 [kind |-> "list",
                  count |-> Len(shown),
                  entries |-> [i \in 1..Len(shown) |-> _file_info(Append(target, shown[i]))]])

-----------------------------------------------------------------------------
(* fs_search_files *)

fs_search_files(raw_pattern, raw_directory, recursive) ==
    LET pattern == str_strip_whitespace(raw_pattern)
        directory == str_strip_whitespace(raw_directory)
        req == [pattern |-> raw_pattern, directory |-> raw_directory,
                recursive |-> recursive]
        safe == _safe_path(directory)
        root == safe.path
        found == sorted_paths(glob_fn(root, pattern, recursive))
        plain == SelectSeq(found, LAMBDA p : is_file(p))
    IN  IF Len(pattern) < 1
        THEN Response("search", req, NoPath, "ValidationError", NoOut)
        ELSE IF ~safe.ok
        THEN Response("search", req, root, "ConfinementError", NoOut)
        ELSE IF ~is_dir(root)
        THEN Response("search", req, root, "NotADirectoryError", NoOut)
        ELSE IF GlobError(pattern) # "None"
        THEN Response("search", req, root, GlobError(pattern), NoOut)
        ELSE IF \E i \in 1..Len(plain) : RelativeToFails(plain[i])
        THEN Response("search", req, root, "ValueError", NoOut)
        ELSE Response("search", req, root, "None",
                 [kind |-> "search",
                  count |-> Len(plain),
                  matches |-> [i \in 1..Len(plain) |-> _file_info(plain[i])]])

-----------------------------------------------------------------------------
(* fs_grep *)

\* The inner loop's break: the cap is reached.
InnerBreak(results, max_results) == Len(results) >= max_results

OuterBreakMissing(results, max_results) == FALSE

\* The outer loop's break: the cap is reached.
OuterBreak(results, max_results) == Len(results) >= max_results

\* The truncated flag of the response.
Truncated(results, max_results) == Len(results) >= max_results

\* The loop over the lines of one file.  acc carries the results and what
\* the scan has touched so far: lines_scanned counts the lines compared
\* with the needle, files_read lists the files whose text was read.
RECURSIVE scan_lines(_, _, _, _, _)
scan_lines(filepath, lines, lineno, p, acc) ==
    IF lineno > Len(lines) THEN acc
    ELSE
        LET line == lines[lineno]
            haystack == IF p.case_sensitive THEN line ELSE lower(line)
            scanned == [acc EXCEPT !.lines_scanned = @ + 1]
        IN  IF Contains(haystack, p.needle)
            THEN IF RelativeToFails(filepath)
                 THEN [scanned EXCEPT !.raised = TRUE]
                 ELSE LET hit == [scanned EXCEPT !.results =
                                     Append(@, [file |-> relative_to_work_dir(filepath),
                                                line |-> lineno,
                                                content |-> rstrip(line)])]
                      IN  IF InnerBreak(hit.results, p.max_results) THEN hit
                          ELSE scan_lines(filepath, lines, lineno + 1, p, hit)
            ELSE scan_lines(filepath, lines, lineno + 1, p, scanned)

\* The loop over the files, in sorted order.
RECURSIVE grep_files(_, _, _, _)
grep_files(filepaths, i, p, acc) ==
    IF i > Len(filepaths) \/ acc.raised THEN acc
    ELSE
        LET filepath == filepaths[i]
        IN  IF ~is_file(filepath) THEN grep_files(filepaths, i + 1, p, acc)
            ELSE
                LET opened == [acc EXCEPT !.files_searched = @ + 1,
                                          !.files_read = Append(@, realnode(filepath))]
                    after == scan_lines(filepath, splitlines(read_text(filepath)),
                                        1, p, opened)
                IN  IF after.raised \/ OuterBreak(after.results, p.max_results)
                    THEN after
                    ELSE grep_files(filepaths, i + 1, p, after)

fs_grep(raw_text, raw_directory, raw_file_pattern, case_sensitive, max_results) ==
    LET text == str_strip_whitespace(raw_text)
        directory == str_strip_whitespace(raw_directory)
        file_pattern == str_strip_whitespace(raw_file_pattern)
        req == [text |-> raw_text, directory |-> raw_directory,
                file_pattern |-> raw_file_pattern,
                case_sensitive |-> case_sensitive, max_results |-> max_results]
        safe == _safe_path(directory)
        root == safe.path
        p == [needle |-> IF case_sensitive THEN text ELSE lower(text),
              case_sensitive |-> case_sensitive,
              max_results |-> max_results]
        start == [results |-> <<>>, files_searched |-> 0, files_read |-> <<>>,
                  lines_scanned |-> 0, raised |-> FALSE]
        done == grep_files(sorted_paths(rglob(root, file_pattern)), 1, p, start)
    IN  IF Len(text) < 1 \/ max_results < 1
        THEN Response("grep", req, NoPath, "ValidationError", NoOut)
        ELSE IF ~safe.ok
        THEN Response("grep", req, root, "ConfinementError", NoOut)
        ELSE IF IsAbsolute(file_pattern)
        THEN Response("grep", req, root, "UnclassifiedError", NoOut)
        ELSE IF InvalidPattern(parse_parts(file_pattern))
        THEN Response("grep", req, root, "ValueError", NoOut)
        ELSE IF done.raised
        THEN Response("grep", req, root, "ValueError", NoOut)
        ELSE Response("grep", req, root, "None",
                 [kind |-> "grep",
                  files_searched |-> done.files_searched,
                  matches_found |-> Len(done.results),
                  truncated |-> Truncated(done.results, max_results),
                  results |-> done.results,
                  files_read |-> done.files_read,
                  lines_scanned |-> done.lines_scanned])

-----------------------------------------------------------------------------
(* The initial filesystems and the requests the clients send *)

\* Snapshot 1: /w holds a.t ("a\nB\nab"), the hidden .h ("b") and the
\* directory s with b.t ("Ab \r\nx\fa\n");
\* /w2 is a sibling of the working directory and holds k.t.
Dirs1 == { <<>>, WORK_DIR, WORK_DIR \o << <<"s">> >>, << <<"w", "2">> >> }

Files1 ==
    (WORK_DIR \o << <<"a", ".", "t">> >>) :> <<"a", "\n", "B", "\n", "a", "b">>
    @@ (WORK_DIR \o << <<".", "h">> >>) :> <<"b">>
    @@ (WORK_DIR \o << <<"s">>, <<"b", ".", "t">> >>) :> <<"A", "b", " ", "\r", "\n", "x", "\f", "a", "\n">>
    @@ (<< <<"w", "2">>, <<"k", ".", "t">> >>) :> <<"a", "b">>

\* Snapshot 2: an empty working directory beside /w2.
Dirs2 == { <<>>, WORK_DIR, << <<"w", "2">> >> }

Files2 == (<< <<"w", "2">>, <<"k", ".", "t">> >>) :> <<"a", "b">>

Snapshots == { [dirs |-> Dirs1, files |-> Files1], [dirs |-> Dirs2, files |-> Files2] }

\* " a.t"  s/b.t  s  n/c.t  ../w2/k.t  ..
PathInputs ==
    { <<" ", "a", ".", "t">>,
      <<"s", "/", "b", ".", "t">>,
      <<"s">>,
      <<"n", "/", "c", ".", "t">>,
      <<".", ".", "/", "w", "2", "/", "k", ".", "t">>,
      <<".", ".">> }

\* ""  x  "x\n"  "a\rB"
ContentInputs ==
    { <<>>, <<"x">>, <<"x", "\n">>, <<"a", "\r", "B">> }

\* .  s  ../w2  a.t  ..
DirInputs ==
    { <<".">>,
      <<"s">>,
      <<".", ".", "/", "w", "2">>,
      <<"a", ".", "t">>,
      <<".", ".">> }

\* .  s  ../w2
SearchDirInputs ==
    { <<".">>,
      <<"s">>,
      <<".", ".", "/", "w", "2">> }

\* .  ../w2
GrepDirInputs ==
    { <<".">>,
      <<".", ".", "/", "w", "2">> }

\* *.t  *  **/*.t  s/*  ../w2/*
SearchPatternInputs ==
    { <<"*", ".", "t">>,
      <<"*">>,
      <<"*", "*", "/", "*", ".", "t">>,
      <<"s", "/", "*">>,
      <<".", ".", "/", "w", "2", "/", "*">> }

\* *.*  ?.t  ../w2/*
GrepPatternInputs ==
    { <<"*", ".", "*">>,
      <<"?", ".", "t">>,
      <<".", ".", "/", "w", "2", "/", "*">> }

\* a  B
TextInputs == { <<"a">>, <<"B">> }

MaxLinesInputs == { <<>> } \cup { <<n>> : n \in 1..MaxLinesBound }

NoRequest == Response("none", [path |-> <<>>], NoPath, "None", NoOut)

-----------------------------------------------------------------------------
(* The server that handles one invocation at a time *)

Init ==
    /\ \E snap \in Snapshots : dirs = snap.dirs /\ files = snap.files
    /\ last = NoRequest
    /\ nops = 0
    /\ pending = {}
    /\ running = <<>>
    /\ suspended = {}
    /\ finished = <<>>

ServerIdle == UNCHANGED <<pending, running, suspended, finished>>

ReadFile ==
    /\ nops < MaxOps
    /\ \E raw_path \in PathInputs, max_lines \in MaxLinesInputs :
          last' = fs_read_file(raw_path, max_lines)
    /\ nops' = nops + 1
    /\ UNCHANGED <<dirs, files>>
    /\ ServerIdle

WriteFile ==
    /\ nops < MaxOps
    /\ \E raw_path \in PathInputs, raw_content \in ContentInputs, overwrite \in BOOLEAN :
          LET r == fs_write_file(raw_path, raw_content, overwrite)
          IN  /\ dirs' = r.dirs
              /\ files' = r.files
              /\ last' = r.resp
    /\ nops' = nops + 1
    /\ ServerIdle

DeleteFile ==
    /\ nops < MaxOps
    /\ \E raw_path \in PathInputs :
          LET r == fs_delete_file(raw_path)
          IN  /\ dirs' = r.dirs
              /\ files' = r.files
              /\ last' = r.resp
    /\ nops' = nops + 1
    /\ ServerIdle

ListDirectory ==
    /\ nops < MaxOps
    /\ \E raw_path \in DirInputs, show_hidden \in BOOLEAN :
          last' = fs_list_directory(raw_path, show_hidden)
    /\ nops' = nops + 1
    /\ UNCHANGED <<dirs, files>>
    /\ ServerIdle

SearchFiles ==
    /\ nops < MaxOps
    /\ \E raw_pattern \in SearchPatternInputs, raw_directory \in SearchDirInputs,
          recursive \in BOOLEAN :
          last' = fs_search_files(raw_pattern, raw_directory, recursive)
    /\ nops' = nops + 1
    /\ UNCHANGED <<dirs, files>>
    /\ ServerIdle

Grep ==
    /\ nops < MaxOps
    /\ \E raw_text \in TextInputs, raw_directory \in GrepDirInputs,
          raw_file_pattern \in GrepPatternInputs, case_sensitive \in BOOLEAN,
          max_results \in 1..MaxResultsBound :
          last' = fs_grep(raw_text, raw_directory, raw_file_pattern,
                          case_sensitive, max_results)
    /\ nops' = nops + 1
    /\ UNCHANGED <<dirs, files>>
    /\ ServerIdle

Next ==
    \/ ReadFile
    \/ WriteFile
    \/ DeleteFile
    \/ ListDirectory
    \/ SearchFiles
    \/ Grep

Spec == Init /\ [][Next]_vars

-----------------------------------------------------------------------------
(* The server with several invocations outstanding *)

MaxClients == 2      \* invocations a behaviour issues concurrently

\* n/c.t  k.t  a.t
ConcurrentPathInputs ==
    { <<"n", "/", "c", ".", "t">>, <<"k", ".", "t">>, <<"a", ".", "t">> }

\* x  "a\rB"
ConcurrentContentInputs == { <<"x">>, <<"a", "\r", "B">> }

SuspendsAfterCheckAwait == TRUE

\* Whether the body of fs_write_file gives up the event loop between its
\* existence check and its write: it has no await, so it does not.
SuspendsAfterCheck == FALSE

Outstanding ==
    {c.id : c \in pending \cup suspended} \cup {running[i].id : i \in 1..Len(running)}

\* A client's write request arrives; the event loop queues a coroutine for
\* it.  absent_at_call and peers record what held when it arrived.
Call ==
    /\ nops < MaxClients
    /\ \E raw_path \in ConcurrentPathInputs, raw_content \in ConcurrentContentInputs,
          overwrite \in BOOLEAN :
          pending' = pending \cup
              {[id |-> nops + 1,
                req |-> [path |-> raw_path, content |-> raw_content,
                         overwrite |-> overwrite],
                pc |-> "check",
                target |-> NoPath,
                absent_at_call |-> ~exists(_safe_path(str_strip_whitespace(raw_path)).path),
                peers |-> Outstanding]}
    /\ nops' = nops + 1
    /\ UNCHANGED <<dirs, files, last, running, suspended, finished>>

\* The idle event loop picks a coroutine that is ready to run.
Schedule ==
    /\ running = <<>>
    /\ \E c \in pending \cup suspended :
          /\ running' = <<c>>
          /\ pending' = pending \ {c}
          /\ suspended' = suspended \ {c}
    /\ UNCHANGED <<dirs, files, last, nops, finished>>

Finish(c, target, err) ==
    [id |-> c.id, req |-> c.req, absent_at_call |-> c.absent_at_call,
     peers |-> c.peers, target |-> target, err |-> err]

\* The running coroutine executes lines 202-208 of fs_write_file.
RunCheck ==
    /\ running # <<>>
    /\ running[1].pc = "check"
    /\ LET c == running[1]
           check == write_check(c.req.path, c.req.overwrite)
           ready == [c EXCEPT !.pc = "write", !.target = check.target]
       IN  IF check.err # "None"
           THEN /\ finished' = Append(finished, Finish(c, check.target, check.err))
                /\ running' = <<>>
                /\ UNCHANGED suspended
           ELSE IF SuspendsAfterCheck
           THEN /\ suspended' = suspended \cup {ready}
                /\ running' = <<>>
                /\ UNCHANGED finished
           ELSE /\ running' = <<ready>>
                /\ UNCHANGED <<suspended, finished>>
    /\ UNCHANGED <<dirs, files, last, nops, pending>>

\* The running coroutine executes lines 210-216 and returns.
RunWrite ==
    /\ running # <<>>
    /\ running[1].pc = "write"
    /\ LET c == running[1]
           commit == write_commit(c.target, ValidatedContent(c.req.content))
       IN  /\ dirs' = commit.dirs
           /\ files' = commit.files
           /\ finished' = Append(finished, Finish(c, c.target, commit.err))
    /\ running' = <<>>
    /\ UNCHANGED <<last, nops, pending, suspended>>

NextConcurrent ==
    \/ Call
    \/ Schedule
    \/ RunCheck
    \/ RunWrite

SpecConcurrent == Init /\ [][NextConcurrent]_vars

-----------------------------------------------------------------------------
(* Properties *)

\* The step is one invocation of the tool op.
Invokes(op) == nops' = nops + 1 /\ last'.op = op

\* Where an entry reported relative to WORK_DIR really is.
Location(relative) == resolve(JoinWorkDir(relative))

\* C1: every path that _safe_path returns is WORK_DIR itself or nested under
\* it on whole path segments, so every tool invocation that got past
\* _safe_path works on a target inside WORK_DIR.
ResolvedPathsConfined ==
    (last.op # "none" /\ last.err \notin {"ValidationError", "ConfinementError"})
        => IsUnder(last.target, WORK_DIR)

\* C2: a name search or a grep whose directory is inside WORK_DIR reads and
\* returns only files inside WORK_DIR, whatever the pattern.
SearchStaysInside ==
    (last.op \in {"search", "grep"} /\ last.err = "None"
        /\ IsUnder(last.target, WORK_DIR))
        => IF last.op = "search"
           THEN \A i \in 1..Len(last.out.matches) :
                    IsUnder(Location(last.out.matches[i].path), WORK_DIR)
           ELSE /\ \A i \in 1..Len(last.out.files_read) :
                       IsUnder(last.out.files_read[i], WORK_DIR)
                /\ \A i \in 1..Len(last.out.results) :
                       IsUnder(Location(last.out.results[i].file), WORK_DIR)

\* C3: a write with overwrite=false to a path that exists when the write is
\* invoked fails with AlreadyExistsError and leaves the filesystem as it was.
WriteNeverReplaces ==
    [][ (Invokes("write") /\ ~last'.req.overwrite
            /\ _safe_path(str_strip_whitespace(last'.req.path)).ok
            /\ exists(_safe_path(str_strip_whitespace(last'.req.path)).path))
        => (last'.err = "AlreadyExistsError" /\ dirs' = dirs /\ files' = files) ]_vars

\* C3 witness: a second write without overwrite to a path that an earlier
\* write created has been refused.
SecondWriteRefused ==
    /\ last.op = "write"
    /\ last.err = "AlreadyExistsError"
    /\ ~last.req.overwrite
    /\ nops = 2
    /\ last.target = WORK_DIR \o << <<"n">>, <<"c", ".", "t">> >>
    /\ last.target \in DOMAIN files

\* C4: after a successful write of content c to p, reading p without
\* max_lines returns exactly c.
WriteReadRoundTrip ==
    (last.op = "write" /\ last.err = "None")
        => fs_read_file(last.req.path, <<>>).out.content = last.req.content

\* Lines of the files a grep read before the last one.
RECURSIVE LinesOfFiles(_)
LinesOfFiles(nodes) ==
    IF nodes = <<>> THEN 0
    ELSE Len(splitlines(universal_newlines(files[Head(nodes)])))
         + LinesOfFiles(Tail(nodes))

\* C5: a grep returns at most max_results matches, truncated is true exactly
\* when the number of matches equals max_results, and once the cap is
\* reached nothing more is scanned: the last line compared is the line of
\* the last match, in the last file read.
GrepCapped ==
    (last.op = "grep" /\ last.err = "None")
        => LET out == last.out
               cap == last.req.max_results
               n == Len(out.results)
           IN  /\ n <= cap
               /\ out.matches_found = n
               /\ out.truncated <=> (n = cap)
               /\ (n = cap) =>
                    /\ out.files_read # <<>>
                    /\ Location(out.results[n].file)
                          = out.files_read[Len(out.files_read)]
                    /\ out.lines_scanned
                          = LinesOfFiles(Front(out.files_read)) + out.results[n].line

\* C5 witness: a grep stopped at the cap with a third matching file unread.
GrepStoppedAtCap ==
    /\ last.op = "grep"
    /\ last.err = "None"
    /\ last.out.truncated
    /\ Len(last.out.results) = 2
    /\ last.out.files_searched = 2
    /\ Cardinality({q \in DOMAIN files : IsUnder(q, last.target)}) = 3

\* C6: deleting a missing path fails with NotFoundError, deleting a
\* directory fails with IsDirectoryError, both leave the filesystem as it
\* was; a delete never removes a directory, and a successful delete removes
\* the one file it names and nothing else.
DeleteOnlyFiles ==
    [][ Invokes("delete") =>
          LET safe == _safe_path(str_strip_whitespace(last'.req.path))
              target == safe.path
          IN  /\ dirs' = dirs
              /\ (safe.ok /\ ~exists(target))
                    => (last'.err = "NotFoundError" /\ files' = files)
              /\ (safe.ok /\ is_dir(target))
                    => (last'.err = "IsDirectoryError" /\ files' = files)
              /\ (last'.err = "None")
                    => /\ target \in DOMAIN files
                       /\ files' = [q \in DOMAIN files \ {target} |-> files[q]]
              /\ (last'.err # "None") => files' = files ]_vars

\* C6 witness: the delete of an empty directory has been refused.
EmptyDirectoryKept ==
    /\ last.op = "delete"
    /\ last.err = "IsDirectoryError"
    /\ last.target \in dirs
    /\ children(last.target) = {}

EntryNames(out) == {out.entries[i].name : i \in 1..Len(out.entries)}

\* C7: a listing without show_hidden returns exactly the direct children
\* whose name does not start with ".", a listing with it returns all direct
\* children; on one snapshot the first is a subset of the second and they
\* differ by exactly the dot names; nothing below the first level is listed.
ListingHidesDotNames ==
    (last.op = "list" /\ last.err = "None")
        => LET all == children(last.target)
               dotted == {n \in all : n[1] = "."}
               hidden == fs_list_directory(last.req.path, FALSE).out
               shown == fs_list_directory(last.req.path, TRUE).out
           IN  /\ EntryNames(last.out)
                    = (IF last.req.show_hidden THEN all ELSE all \ dotted)
               /\ Len(last.out.entries) = Cardinality(EntryNames(last.out))
               /\ last.out.count = Len(last.out.entries)
               /\ EntryNames(hidden) \subseteq EntryNames(shown)
               /\ EntryNames(shown) \ EntryNames(hidden) = dotted
               /\ \A i \in 1..Len(last.out.entries) :
                     Location(last.out.entries[i].path)
                        = Append(last.target, last.out.entries[i].name)

\* C7 witness: a listing without show_hidden of a directory with a dot name.
DotNameLeftOut ==
    /\ last.op = "list"
    /\ last.err = "None"
    /\ ~last.req.show_hidden
    /\ \E n \in children(last.target) : n[1] = "."
    /\ last.out.count = Cardinality(children(last.target)) - 1
    /\ last.out.count > 0

\* C8: a name search returns plain files only, and without recursive every
\* file it returns from below the directory is a direct child of the
\* directory, whatever the pattern.
SearchDepthByFlag ==
    (last.op = "search" /\ last.err = "None")
        => \A i \in 1..Len(last.out.matches) :
              /\ ~last.out.matches[i].is_dir
              /\ (~last.req.recursive
                    /\ IsUnder(Location(last.out.matches[i].path), last.target))
                    => Len(Location(last.out.matches[i].path)) = Len(last.target) + 1

\* C9: a read with max_lines set on a file of more lines returns the first
\* max_lines lines joined by line breaks and notes max_lines of the total;
\* otherwise it returns the whole text and no note; a directory is refused
\* with IsDirectoryError.
ReadTruncation ==
    (last.op = "read" /\ last.err \notin {"ValidationError", "ConfinementError"})
        => /\ is_dir(last.target) <=> (last.err = "IsDirectoryError")
           /\ (last.err = "None") =>
                LET text == universal_newlines(files[last.target])
                    lines == splitlines(text)
                    limit == last.req.max_lines
                    out == last.out
                IN  IF limit # <<>> /\ Len(lines) > limit[1]
                    THEN /\ out.truncated
                         /\ out.shown = limit[1]
                         /\ out.total = Len(lines)
                         /\ out.content = join_lines(SubSeq(lines, 1, limit[1]))
                    ELSE /\ ~out.truncated
                         /\ out.content = text

\* C9 witness: the three-line a.t read with max_lines=1 gave its first line
\* and the note 1 of 3.
FirstLineOfThree ==
    /\ last.op = "read"
    /\ last.err = "None"
    /\ last.out.truncated
    /\ last.out.content = <<"a">>
    /\ last.out.shown = 1
    /\ last.out.total = 3

\* Two finished invocations that were outstanding at the same time.
Concurrent(a, b) == a.id \in b.peers \/ b.id \in a.peers

\* The finished writes without overwrite to one path that did not exist when
\* they were invoked, nobody else having written to it.
RacingPairs ==
    {pair \in (1..Len(finished)) \X (1..Len(finished)) :
        /\ pair[1] < pair[2]
        /\ finished[pair[1]].target = finished[pair[2]].target
        /\ ~finished[pair[1]].req.overwrite /\ ~finished[pair[2]].req.overwrite
        /\ finished[pair[1]].absent_at_call /\ finished[pair[2]].absent_at_call
        /\ Concurrent(finished[pair[1]], finished[pair[2]])
        /\ \A k \in 1..Len(finished) :
              finished[k].target = finished[pair[1]].target => k \in {pair[1], pair[2]}}

\* C10: of two concurrent writes without overwrite to the same absent path
\* exactly one succeeds, the other fails with AlreadyExistsError, and the
\* file holds what the successful one wrote.
ConcurrentCreateExclusive ==
    \A pair \in RacingPairs :
        /\ finished[pair[1]].err = "None"
        /\ finished[pair[2]].err = "AlreadyExistsError"
        /\ finished[pair[1]].target \in DOMAIN files
        /\ files[finished[pair[1]].target]
              = ValidatedContent(finished[pair[1]].req.content)

\* C10 witness: two such writes have both finished, with different texts.
RaceDecided ==
    \E pair \in RacingPairs :
        finished[pair[1]].req.content # finished[pair[2]].req.content

====
